---- MODULE Spec2Model ----
(***************************************************************************)
(* A model of iQon's relay server (src/main.go).  Lines 1-417 are the      *)
(* polling variant: startPolling / processTimeline feed the learning       *)
(* resolvers resolveUser / resolveChannelPath, and the result is written   *)
(* to lastSpeakers and fanned out by broadcastToClients, while             *)
(* handleConnections serves the subscribers.                               *)
(*                                                                         *)
(* Strings of the program are TLA+ strings; a path is built with \o as the *)
(* code builds it with +.  Maps are functions whose DOMAIN is the key set. *)
(* Every goroutine is a task with a program counter; one action is one     *)
(* stretch of code between two points where another goroutine can          *)
(* interfere (a lock operation, a remote call, a socket write).            *)
(***************************************************************************)
EXTENDS Integers, Sequences, FiniteSets, TLC

\* ------------------------------------------------------------------ bounds

\* createdAt values are instants 0..MaxTime
MaxTime == 2
\* longest timeline one poll returns
MaxBatch == 2
\* polls started in one run
MaxTicks == 2
\* hops one resolveChannelPath call may walk before the model stops following it
MaxHops == 3

\* ------------------------------------------------------------ the universe

Poller == "poller"
Resolvers == {"r1", "r2"}
Tasks == {Poller} \cup Resolvers
Conns == {"ws1", "ws2"}

UserIds == {"u1", "u2"}
ChannelIds == {"c1", "c2", "c3"}
RootID == "00000000-0000-0000-0000-000000000000"
None == "none"

\* the upstream's user directory (GET /users/{id})
UpstreamUserName(id) == IF id = "u1" THEN "alice" ELSE "bob"

\* the upstream's channel names (GET /channels/{id})
UpstreamChannelName(id) == IF id = "c1" THEN "A" ELSE IF id = "c2" THEN "B" ELSE "general"

Times == 0 .. MaxTime

\* type ActivityMessage (Content and ID are not read by the code modelled)
ActivityMessage == [userId : UserIds, channelId : ChannelIds, createdAt : Times]

\* the zero ActivityMessage
NoMessage == [userId |-> "", channelId |-> "", createdAt |-> 0]

\* type Channel
Channel(id, parent) == [id |-> id, name |-> UpstreamChannelName(id), parentId |-> parent]

\* lines 23-27: the User entity the upstream serves for id
User(id) == [id |-> id, name |-> UpstreamUserName(id)]

\* every parent relation over ChannelIds, cyclic ones included
AllGraphs == [ChannelIds -> ChannelIds \cup {RootID, ""}]

\* the channel tree the program runs against: A under B, B and general at the root
ProgramGraph == [c \in ChannelIds |-> IF c = "c1" THEN "c2" ELSE IF c = "c2" THEN RootID ELSE ""]

\* a map with one key set
Put(m, k, v) == [x \in DOMAIN m \cup {k} |-> IF x = k THEN v ELSE m[x]]

EmptyMap == [x \in {} |-> ""]

Max(S) == CHOOSE x \in S : \A y \in S : y <= x

\* --------------------------------------------------------------- the state

VARIABLES
    \* the upstream (environment)
    upstream,       \* ChannelIds -> parent id: the channel relation GET /channels/{id} serves
    feed,           \* the events the timeline endpoint may return
    \* the program's globals
    channelMap, userMap, mapMutex,
    lastSpeakers, stateMutex,
    clients, clientsMu,
    lastCheckTime,
    crashed,        \* the Go runtime ended the process (fatal error / panic)
    \* every task: where it is and the locals of the resolver it runs
    pc, userID, username, channelID, currentID, path, fetched,
    \* the Poller's locals
    ticks, pollResult, msg, i, newestInBatch, updates, pending, cur,
    \* every subscriber connection
    subPc, conn, inbox,
    \* history (not read by any action's guard or effect on program state)
    fetchCount, fetchFailed, hopFailed, hops,
    retainedTimes, processedTimes, tickEvents, tickSent, nonEmptyAtConnect

upVars == <<upstream, feed>>
globalVars == <<channelMap, userMap, mapMutex, lastSpeakers, stateMutex, clients, clientsMu,
                lastCheckTime, crashed>>
taskVars == <<pc, userID, username, channelID, currentID, path, fetched>>
pollVars == <<ticks, pollResult, msg, i, newestInBatch, updates, pending, cur>>
subVars == <<subPc, conn, inbox>>
histVars == <<fetchCount, fetchFailed, hopFailed, hops,
              retainedTimes, processedTimes, tickEvents, tickSent, nonEmptyAtConnect>>
vars == <<upVars, globalVars, taskVars, pollVars, subVars, histVars>>

\* ---------------------------------------------------------------- sync.RWMutex

\* an RWMutex is [w |-> the writer or None, r |-> the set of readers]
Unlocked == [w |-> None, r |-> {}]
CanRLock(mu) == mu.w = None
CanLock(mu) == mu.w = None /\ mu.r = {}
RLock(mu, t) == [mu EXCEPT !.r = @ \cup {t}]
\* the read lock is not released
RUnlockKept(mu, t) == mu

RUnlock(mu, t) == [mu EXCEPT !.r = @ \ {t}]
Lock(mu, t) == [mu EXCEPT !.w = t]
\* the write lock is not released
UnlockKept(mu, t) == mu

Unlock(mu, t) == [mu EXCEPT !.w = None]

\* ------------------------------------------------------------------- Init

\* fetchInitialData: the bulk listing loads some of the upstream's entities
BulkChannels(g, S) == [c \in S |-> Channel(c, g[c])]
BulkUsers(S) == [u \in S |-> UpstreamUserName(u)]

InitCommon ==
    /\ mapMutex = Unlocked /\ stateMutex = Unlocked /\ clientsMu = None
    /\ lastSpeakers = EmptyMap
    /\ clients = {}
    /\ crashed = FALSE
    /\ pc = [t \in Tasks |-> "idle"]
    /\ userID = [t \in Tasks |-> None]
    /\ username = [t \in Tasks |-> ""]
    /\ channelID = [t \in Tasks |-> None]
    /\ currentID = [t \in Tasks |-> None]
    /\ path = [t \in Tasks |-> ""]
    /\ fetched = [t \in Tasks |-> <<>>]
    /\ ticks = 0 /\ pollResult = None /\ msg = NoMessage /\ i = 0
    /\ updates = EmptyMap /\ pending = {} /\ cur = None
    /\ subPc = [c \in Conns |-> "start"]
    /\ conn = [c \in Conns |-> None]
    /\ inbox = [c \in Conns |-> <<>>]
    /\ fetchCount = [u \in UserIds |-> 0]
    /\ fetchFailed = {}
    /\ hopFailed = [t \in Tasks |-> FALSE]
    /\ hops = [t \in Tasks |-> 0]
    /\ retainedTimes = {} /\ processedTimes = {}
    /\ tickEvents = {} /\ tickSent = <<>>
    /\ nonEmptyAtConnect = {}

\* main: lastCheckTime = time.Now().UTC()
StartTime == 0

\* --------------------------------------------------------------- resolveUser

\* line 203/205: name, ok := userMap[userID]
CacheHit(um, id) == id \in DOMAIN um

\* the re-check left out: the entry is taken to be absent
ExistsNever(um, id) == FALSE

\* line 220: the re-check under the write lock
Exists(um, id) == id \in DOMAIN um

\* lines 220-233: the name resolveUser returns after its fetch
LearnedName(um, id, res) ==
    IF Exists(um, id) THEN um[id]
    ELSE IF res[1] = "err" THEN "webhook"
    ELSE res[2].name

\* a failed fetch registers nothing
StoreUserUnlessErr(um, id, res) ==
    IF id \in DOMAIN um \/ res[1] = "err" THEN um ELSE Put(um, id, res[2].name)

\* lines 220-231: the user cache after the fetch (write-if-absent)
StoreUser(um, id, res) ==
    IF Exists(um, id) THEN um ELSE Put(um, id, LearnedName(um, id, res))

\* line 202: mapMutex.RLock()
RU_RLock(t) ==
    /\ pc[t] = "ru_rlock"
    /\ CanRLock(mapMutex)
    /\ mapMutex' = RLock(mapMutex, t)
    /\ pc' = [pc EXCEPT ![t] = "ru_read"]
    /\ UNCHANGED <<upVars, channelMap, userMap, lastSpeakers, stateMutex, clients, clientsMu,
                   lastCheckTime, crashed, userID, username, channelID, currentID, path, fetched,
                   pollVars, subVars, histVars>>

\* lines 203-213: read the cache and RUnlock; a hit returns, a miss issues fetchSingleUser
RU_Read(t) ==
    /\ pc[t] = "ru_read"
    /\ mapMutex' = RUnlock(mapMutex, t)
    /\ IF CacheHit(userMap, userID[t])
       THEN /\ username' = [username EXCEPT ![t] = userMap[userID[t]]]
            /\ pc' = [pc EXCEPT ![t] = "ru_done"]
            /\ UNCHANGED fetchCount
       ELSE /\ pc' = [pc EXCEPT ![t] = "ru_fetch"]
            /\ fetchCount' = [fetchCount EXCEPT ![userID[t]] = @ + 1]
            /\ UNCHANGED username
    /\ UNCHANGED <<upVars, channelMap, userMap, lastSpeakers, stateMutex, clients, clientsMu,
                   lastCheckTime, crashed, userID, channelID, currentID, path, fetched,
                   pollVars, subVars, fetchFailed, hopFailed, hops,
                   retainedTimes, processedTimes, tickEvents, tickSent, nonEmptyAtConnect>>

\* fetchSingleUser (lines 283-305) returns the user
FetchUserOk(t) ==
    /\ pc[t] = "ru_fetch"
    /\ fetched' = [fetched EXCEPT ![t] = <<"ok", User(userID[t])>>]
    /\ pc' = [pc EXCEPT ![t] = "ru_lock"]
    /\ UNCHANGED <<upVars, globalVars, userID, username, channelID, currentID, path,
                   pollVars, subVars, histVars>>

\* fetchSingleUser returns an error (transport, non-200, decode)
FetchUserErr(t) ==
    /\ pc[t] = "ru_fetch"
    /\ fetched' = [fetched EXCEPT ![t] = <<"err">>]
    /\ fetchFailed' = fetchFailed \cup {userID[t]}
    /\ pc' = [pc EXCEPT ![t] = "ru_lock"]
    /\ UNCHANGED <<upVars, globalVars, userID, username, channelID, currentID, path,
                   pollVars, subVars, fetchCount, hopFailed, hops,
                   retainedTimes, processedTimes, tickEvents, tickSent, nonEmptyAtConnect>>

\* line 216: mapMutex.Lock()
RU_Lock(t) ==
    /\ pc[t] = "ru_lock"
    /\ CanLock(mapMutex)
    /\ mapMutex' = Lock(mapMutex, t)
    /\ pc' = [pc EXCEPT ![t] = "ru_store"]
    /\ UNCHANGED <<upVars, channelMap, userMap, lastSpeakers, stateMutex, clients, clientsMu,
                   lastCheckTime, crashed, userID, username, channelID, currentID, path, fetched,
                   pollVars, subVars, histVars>>

\* lines 217-233: re-check, register, return; the deferred Unlock
RU_Store(t) ==
    /\ pc[t] = "ru_store"
    /\ userMap' = StoreUser(userMap, userID[t], fetched[t])
    /\ username' = [username EXCEPT ![t] = LearnedName(userMap, userID[t], fetched[t])]
    /\ mapMutex' = Unlock(mapMutex, t)
    /\ pc' = [pc EXCEPT ![t] = "ru_done"]
    /\ UNCHANGED <<upVars, channelMap, lastSpeakers, stateMutex, clients, clientsMu,
                   lastCheckTime, crashed, userID, channelID, currentID, path, fetched,
                   pollVars, subVars, fetchCount, fetchFailed, hopFailed, hops,
                   retainedTimes, processedTimes, tickEvents, tickSent, nonEmptyAtConnect>>

resolveUser(t) ==
    \/ RU_RLock(t) \/ RU_Read(t) \/ FetchUserOk(t) \/ FetchUserErr(t) \/ RU_Lock(t) \/ RU_Store(t)

\* -------------------------------------------------------- resolveChannelPath

\* line 272: the parent is empty or the sentinel root
IsRoot(parentId) == parentId = "" \/ parentId = RootID

\* the name is appended instead of prepended
PrependAfter(ch, p) == p \o "/" \o ch.name

\* line 269: path = "/" + ch.Name + path
Prepend(ch, p) == "/" \o ch.name \o p

\* line 278: return "/channels" + path
FullPath(p) == "/channels" \o p

\* the path built so far is returned
UnresolvedPartial(p) == "/channels" \o p

\* line 259: return "" for a chain with an unresolvable hop
Unresolved(p) == ""

\* lines 608-627, the event-driven variant: the walk over the cache alone, under one
\* RLock, with no fetch; a walk still going after n more hops is one that never returns
RECURSIVE WalkCached(_, _, _, _)
WalkCached(cm, id, p, n) ==
    IF id \notin DOMAIN cm THEN ""
    ELSE IF IsRoot(cm[id].parentId) THEN FullPath(Prepend(cm[id], p))
    ELSE IF n = 0 THEN "(no return)"
    ELSE WalkCached(cm, cm[id].parentId, Prepend(cm[id], p), n - 1)

resolveChannelPathCached(cm, id) == WalkCached(cm, id, "", MaxHops)

\* lines 268-278 for the entity ch of the current hop
RC_Push(t, ch) ==
    IF IsRoot(ch.parentId)
    THEN /\ path' = [path EXCEPT ![t] = FullPath(Prepend(ch, path[t]))]
         /\ pc' = [pc EXCEPT ![t] = "rc_done"]
         /\ UNCHANGED currentID
    ELSE /\ path' = [path EXCEPT ![t] = Prepend(ch, path[t])]
         /\ currentID' = [currentID EXCEPT ![t] = ch.parentId]
         /\ pc' = [pc EXCEPT ![t] = "rc_rlock"]

\* line 246: mapMutex.RLock() at the top of the loop
RC_RLock(t) ==
    /\ pc[t] = "rc_rlock"
    /\ hops[t] < MaxHops
    /\ CanRLock(mapMutex)
    /\ mapMutex' = RLock(mapMutex, t)
    /\ hops' = [hops EXCEPT ![t] = @ + 1]
    /\ pc' = [pc EXCEPT ![t] = "rc_read"]
    /\ UNCHANGED <<upVars, channelMap, userMap, lastSpeakers, stateMutex, clients, clientsMu,
                   lastCheckTime, crashed, userID, username, channelID, currentID, path, fetched,
                   pollVars, subVars, fetchCount, fetchFailed, hopFailed,
                   retainedTimes, processedTimes, tickEvents, tickSent, nonEmptyAtConnect>>

\* lines 247-253 and 268-276: read the cache and RUnlock; a hit goes on, a miss issues fetchSingleChannel
RC_Read(t) ==
    /\ pc[t] = "rc_read"
    /\ mapMutex' = RUnlock(mapMutex, t)
    /\ IF currentID[t] \in DOMAIN channelMap
       THEN RC_Push(t, channelMap[currentID[t]])
       ELSE /\ pc' = [pc EXCEPT ![t] = "rc_fetch"]
            /\ UNCHANGED <<path, currentID>>
    /\ UNCHANGED <<upVars, channelMap, userMap, lastSpeakers, stateMutex, clients, clientsMu,
                   lastCheckTime, crashed, userID, username, channelID, fetched,
                   pollVars, subVars, histVars>>

\* fetchSingleChannel (lines 307-329) returns the channel
FetchChannelOk(t) ==
    /\ pc[t] = "rc_fetch"
    /\ fetched' = [fetched EXCEPT ![t] = <<"ok", Channel(currentID[t], upstream[currentID[t]])>>]
    /\ pc' = [pc EXCEPT ![t] = "rc_lock"]
    /\ UNCHANGED <<upVars, globalVars, userID, username, channelID, currentID, path,
                   pollVars, subVars, histVars>>

\* fetchSingleChannel returns an error
FetchChannelErr(t) ==
    /\ pc[t] = "rc_fetch"
    /\ fetched' = [fetched EXCEPT ![t] = <<"err">>]
    /\ hopFailed' = [hopFailed EXCEPT ![t] = TRUE]
    /\ pc' = [pc EXCEPT ![t] = "rc_lock"]
    /\ UNCHANGED <<upVars, globalVars, userID, username, channelID, currentID, path,
                   pollVars, subVars, fetchCount, fetchFailed, hops,
                   retainedTimes, processedTimes, tickEvents, tickSent, nonEmptyAtConnect>>

\* line 255: mapMutex.Lock()
RC_Lock(t) ==
    /\ pc[t] = "rc_lock"
    /\ CanLock(mapMutex)
    /\ mapMutex' = Lock(mapMutex, t)
    /\ pc' = [pc EXCEPT ![t] = "rc_store"]
    /\ UNCHANGED <<upVars, channelMap, userMap, lastSpeakers, stateMutex, clients, clientsMu,
                   lastCheckTime, crashed, userID, username, channelID, currentID, path, fetched,
                   pollVars, subVars, histVars>>

\* lines 256-276: on error Unlock and return ""; otherwise register, Unlock and go on
RC_Store(t) ==
    /\ pc[t] = "rc_store"
    /\ mapMutex' = Unlock(mapMutex, t)
    /\ IF fetched[t][1] = "err"
       THEN /\ path' = [path EXCEPT ![t] = Unresolved(path[t])]
            /\ pc' = [pc EXCEPT ![t] = "rc_done"]
            /\ UNCHANGED <<channelMap, currentID>>
       ELSE /\ channelMap' = Put(channelMap, currentID[t], fetched[t][2])
            /\ RC_Push(t, fetched[t][2])
    /\ UNCHANGED <<upVars, userMap, lastSpeakers, stateMutex, clients, clientsMu,
                   lastCheckTime, crashed, userID, username, channelID, fetched,
                   pollVars, subVars, histVars>>

resolveChannelPath(t) ==
    \/ RC_RLock(t) \/ RC_Read(t) \/ FetchChannelOk(t) \/ FetchChannelErr(t) \/ RC_Lock(t) \/ RC_Store(t)

\* ------------------------------------------------ concurrent resolver callers

\* lines 241-242: path := "", currentID := channelID
EnterResolveChannelPath(t, id) ==
    /\ channelID' = [channelID EXCEPT ![t] = id]
    /\ currentID' = [currentID EXCEPT ![t] = id]
    /\ path' = [path EXCEPT ![t] = ""]
    /\ hops' = [hops EXCEPT ![t] = 0]
    /\ hopFailed' = [hopFailed EXCEPT ![t] = FALSE]
    /\ pc' = [pc EXCEPT ![t] = "rc_rlock"]

\* a goroutine calls resolveUser(id)
CallResolveUser(t, id) ==
    /\ pc[t] = "idle"
    /\ userID' = [userID EXCEPT ![t] = id]
    /\ pc' = [pc EXCEPT ![t] = "ru_rlock"]
    /\ UNCHANGED <<upVars, globalVars, username, channelID, currentID, path, fetched,
                   pollVars, subVars, histVars>>

\* a goroutine calls resolveChannelPath(id)
CallResolveChannelPath(t, id) ==
    /\ pc[t] = "idle"
    /\ EnterResolveChannelPath(t, id)
    /\ UNCHANGED <<upVars, globalVars, userID, username, fetched,
                   pollVars, subVars, fetchCount, fetchFailed,
                   retainedTimes, processedTimes, tickEvents, tickSent, nonEmptyAtConnect>>

\* the call has returned and its frame is gone
Return(t) ==
    /\ pc[t] \in {"ru_done", "rc_done"}
    /\ pc' = [pc EXCEPT ![t] = "idle"]
    /\ userID' = [userID EXCEPT ![t] = None]
    /\ username' = [username EXCEPT ![t] = ""]
    /\ channelID' = [channelID EXCEPT ![t] = None]
    /\ currentID' = [currentID EXCEPT ![t] = None]
    /\ path' = [path EXCEPT ![t] = ""]
    /\ fetched' = [fetched EXCEPT ![t] = <<>>]
    /\ hops' = [hops EXCEPT ![t] = 0]
    /\ hopFailed' = [hopFailed EXCEPT ![t] = FALSE]
    /\ UNCHANGED <<upVars, globalVars, pollVars, subVars, fetchCount, fetchFailed,
                   retainedTimes, processedTimes, tickEvents, tickSent, nonEmptyAtConnect>>

\* -------------------------------------------------------------- startPolling

\* how client.Do / the status check / the decoder end (lines 124-141)
Outcomes == {"transport", "status", "decode", "ok"}

\* a decode error no longer skips the tick
SkipsTickUnlessDecode(outcome) == outcome \in {"transport", "status"}

\* lines 125-141: the three failures `continue` to the next tick
SkipsTick(outcome) == outcome \in {"transport", "status", "decode"}

\* the lengths of the timelines a poll may decode
BatchLengths == 0 .. MaxBatch

\* time.Time.After
After(a, b) == a > b

\* newestInBatch starts from the zero time instead of the watermark
FirstNewestZero(lct) == 0

\* line 153: newestInBatch := lastCheckTime
FirstNewest(lct) == lct

\* the comparison left out: the last retained event sets newestInBatch
NewestLast(t, newest) == t

\* lines 165-167: the newest createdAt seen so far
Newest(t, newest) == IF After(t, newest) THEN t ELSE newest

\* the watermark stays where it was
KeepWatermark(lct, newest) == lct

\* line 184: lastCheckTime = newestInBatch
AdvanceWatermark(lct, newest) == newest

\* the filter left out: every event of the batch is retained
RetainedAll(m, lct) == TRUE

\* an event at the watermark is retained too
RetainedOrEqual(m, lct) == m.createdAt >= lct

\* line 161: retained events are those strictly after the watermark
Retained(m, lct) == After(m.createdAt, lct)

\* type ExtensionUpdate (lines 177-181)
ExtensionUpdate(p, name) == [type |-> "UPDATE", channelPath |-> p, username |-> name]

\* type ExtensionInit (lines 391-394)
ExtensionInit(state) == [type |-> "INIT", state |-> state]

\* the first update collected for a path is kept
CollectFirst(ups, p, name) ==
    IF p \in DOMAIN ups THEN ups ELSE Put(ups, p, [type |-> "UPDATE", channelPath |-> p, username |-> name])

\* line 177: updates[path] = ExtensionUpdate{...}
Collect(ups, p, name) == Put(ups, p, ExtensionUpdate(p, name))

\* the wrong field of the update is stored
SetSpeakerPath(ls, p, update) == Put(ls, p, update.channelPath)

\* line 189: lastSpeakers[path] = update.Username
SetSpeaker(ls, p, update) == Put(ls, p, update.username)

\* processTimeline has returned: its frame, and those of its callees, are gone
PT_Return ==
    /\ pc' = [pc EXCEPT ![Poller] = "idle"]
    /\ msg' = NoMessage /\ i' = 0 /\ newestInBatch' = StartTime
    /\ updates' = EmptyMap /\ pending' = {} /\ cur' = None
    /\ userID' = [userID EXCEPT ![Poller] = None]
    /\ username' = [username EXCEPT ![Poller] = ""]
    /\ channelID' = [channelID EXCEPT ![Poller] = None]
    /\ currentID' = [currentID EXCEPT ![Poller] = None]
    /\ path' = [path EXCEPT ![Poller] = ""]
    /\ fetched' = [fetched EXCEPT ![Poller] = <<>>]
    /\ hops' = [hops EXCEPT ![Poller] = 0]
    /\ hopFailed' = [hopFailed EXCEPT ![Poller] = FALSE]

\* line 118: the ticker fires and client.Do sends the timeline request
Tick ==
    /\ pc[Poller] = "idle"
    /\ ticks < MaxTicks
    /\ ticks' = ticks + 1
    /\ pc' = [pc EXCEPT ![Poller] = "poll"]
    /\ pollResult' = None
    /\ tickEvents' = {}
    /\ tickSent' = <<>>
    /\ UNCHANGED <<upVars, globalVars, userID, username, channelID, currentID, path, fetched,
                   msg, i, newestInBatch, updates, pending, cur, subVars,
                   fetchCount, fetchFailed, hopFailed, hops, retainedTimes, processedTimes,
                   nonEmptyAtConnect>>

\* lines 124-144 and 148-154: the request ends; a failure skips the tick, a decoded
\* timeline of n messages enters processTimeline.  The timeline is an input each of
\* whose elements the loop reads once: an element is drawn from the feed where the
\* loop reads it (PT_Next), which yields the same runs as drawing all n here.
PollReturn(outcome, n) ==
    /\ pc[Poller] = "poll"
    /\ pollResult' = outcome
    /\ IF SkipsTick(outcome) \/ n = 0
       THEN /\ pc' = [pc EXCEPT ![Poller] = "idle"]
            /\ UNCHANGED <<i, newestInBatch, updates>>
       ELSE /\ newestInBatch' = FirstNewest(lastCheckTime)
            /\ updates' = EmptyMap
            /\ i' = n - 1
            /\ pc' = [pc EXCEPT ![Poller] = "loop"]
    /\ UNCHANGED <<upVars, globalVars, userID, username, channelID, currentID, path, fetched,
                   ticks, msg, pending, cur, subVars, histVars>>

\* lines 157-170: msg := messages[i] is m; an event not after the watermark is skipped,
\* another one moves newestInBatch and is handed to resolveUser
PT_Next(m) ==
    /\ pc[Poller] = "loop"
    /\ i >= 0
    /\ msg' = m
    /\ IF ~Retained(m, lastCheckTime)
       THEN /\ i' = i - 1
            /\ UNCHANGED <<pc, newestInBatch, userID, retainedTimes>>
       ELSE /\ newestInBatch' = Newest(m.createdAt, newestInBatch)
            /\ userID' = [userID EXCEPT ![Poller] = m.userId]
            /\ pc' = [pc EXCEPT ![Poller] = "ru_rlock"]
            /\ retainedTimes' = retainedTimes \cup {m.createdAt}
            /\ UNCHANGED i
    /\ UNCHANGED <<upVars, globalVars, username, channelID, currentID, path, fetched,
                   ticks, pollResult, updates, pending, cur, subVars,
                   fetchCount, fetchFailed, hopFailed, hops, processedTimes,
                   tickEvents, tickSent, nonEmptyAtConnect>>

\* lines 184-186: the loop is over (its msg is out of scope); the watermark moves to
\* newestInBatch, and with no update to publish processTimeline returns
PT_LoopEnd ==
    /\ pc[Poller] = "loop"
    /\ i < 0
    /\ lastCheckTime' = AdvanceWatermark(lastCheckTime, newestInBatch)
    /\ IF DOMAIN updates # {}
       THEN /\ pending' = DOMAIN updates
            /\ pc' = [pc EXCEPT ![Poller] = "pub_lock"]
            /\ msg' = NoMessage
            /\ UNCHANGED <<i, newestInBatch, updates, cur, userID, username,
                           channelID, currentID, path, fetched, hops, hopFailed>>
       ELSE PT_Return
    /\ UNCHANGED <<upVars, channelMap, userMap, mapMutex, lastSpeakers, stateMutex, clients,
                   clientsMu, crashed, ticks, pollResult, subVars,
                   fetchCount, fetchFailed, retainedTimes, processedTimes, tickEvents, tickSent,
                   nonEmptyAtConnect>>

\* line 171: path := resolveChannelPath(msg.ChannelID)
PT_CallChannel ==
    /\ pc[Poller] = "ru_done"
    /\ EnterResolveChannelPath(Poller, msg.channelId)
    /\ UNCHANGED <<upVars, globalVars, userID, username, fetched, pollVars, subVars,
                   fetchCount, fetchFailed, retainedTimes, processedTimes,
                   tickEvents, tickSent, nonEmptyAtConnect>>

\* lines 173-182: drop the event or collect its update; next message
PT_Collect ==
    /\ pc[Poller] = "rc_done"
    /\ IF username[Poller] = "" \/ path[Poller] = ""
       THEN UNCHANGED <<updates, processedTimes, tickEvents>>
       ELSE /\ updates' = Collect(updates, path[Poller], username[Poller])
            /\ processedTimes' = processedTimes \cup {msg.createdAt}
            /\ tickEvents' = tickEvents \cup
                   {[idx |-> i, createdAt |-> msg.createdAt,
                     channelPath |-> path[Poller], username |-> username[Poller]]}
    /\ i' = i - 1
    /\ pc' = [pc EXCEPT ![Poller] = "loop"]
    /\ UNCHANGED <<upVars, globalVars, userID, username, channelID, currentID, path, fetched,
                   ticks, pollResult, msg, newestInBatch, pending, cur, subVars,
                   fetchCount, fetchFailed, hopFailed, hops, retainedTimes, tickSent, nonEmptyAtConnect>>

\* line 187: stateMutex.Lock()
PT_PubLock ==
    /\ pc[Poller] = "pub_lock"
    /\ CanLock(stateMutex)
    /\ stateMutex' = Lock(stateMutex, Poller)
    /\ pc' = [pc EXCEPT ![Poller] = "pub_range"]
    /\ UNCHANGED <<upVars, channelMap, userMap, mapMutex, lastSpeakers, clients, clientsMu,
                   lastCheckTime, crashed, userID, username, channelID, currentID, path, fetched,
                   pollVars, subVars, histVars>>

\* lines 188-189: the range takes the next update, in any order, and writes lastSpeakers
PT_Range(p) ==
    /\ pc[Poller] = "pub_range"
    /\ p \in pending
    /\ lastSpeakers' = SetSpeaker(lastSpeakers, p, updates[p])
    /\ pending' = pending \ {p}
    /\ cur' = p
    /\ pc' = [pc EXCEPT ![Poller] = "bc_lock"]
    /\ UNCHANGED <<upVars, channelMap, userMap, mapMutex, stateMutex, clients, clientsMu,
                   lastCheckTime, crashed, userID, username, channelID, currentID, path, fetched,
                   ticks, pollResult, msg, i, newestInBatch, updates, subVars, histVars>>

\* line 193: the range is over; stateMutex.Unlock()
PT_PubUnlock ==
    /\ pc[Poller] = "pub_range"
    /\ pending = {}
    /\ stateMutex' = Unlock(stateMutex, Poller)
    /\ PT_Return
    /\ UNCHANGED <<upVars, channelMap, userMap, mapMutex, lastSpeakers, clients, clientsMu,
                   lastCheckTime, crashed, ticks, pollResult, subVars,
                   fetchCount, fetchFailed, retainedTimes, processedTimes, tickEvents, tickSent, nonEmptyAtConnect>>

\* ------------------------------------------------------- broadcastToClients

\* line 412: WriteJSON fails on a connection that is no longer open
WriteFails(c) == conn[c] # "open"

\* the delete is left out: a client whose write failed stays in the set
SurvivorsAll(cl) == cl

\* lines 412-415: the clients left in the set after a broadcast
Survivors(cl) == {c \in cl : ~WriteFails(c)}

\* line 409: clientsMu.Lock()
BC_Lock ==
    /\ pc[Poller] = "bc_lock"
    /\ clientsMu = None
    /\ clientsMu' = Poller
    /\ pc' = [pc EXCEPT ![Poller] = "bc_send"]
    /\ UNCHANGED <<upVars, channelMap, userMap, mapMutex, lastSpeakers, stateMutex, clients,
                   lastCheckTime, crashed, userID, username, channelID, currentID, path, fetched,
                   pollVars, subVars, histVars>>

\* lines 411-416 and the deferred Unlock: write to every client; close and delete
\* the ones whose write fails
BC_Send ==
    /\ pc[Poller] = "bc_send"
    /\ inbox' = [c \in Conns |-> IF c \in clients /\ ~WriteFails(c)
                                 THEN Append(inbox[c], updates[cur]) ELSE inbox[c]]
    /\ conn' = [c \in Conns |-> IF c \in clients /\ WriteFails(c) THEN "closed" ELSE conn[c]]
    /\ clients' = Survivors(clients)
    /\ clientsMu' = None
    /\ tickSent' = Append(tickSent, updates[cur])
    /\ pc' = [pc EXCEPT ![Poller] = "pub_range"]
    /\ UNCHANGED <<upVars, channelMap, userMap, mapMutex, lastSpeakers, stateMutex,
                   lastCheckTime, crashed, userID, username, channelID, currentID, path, fetched,
                   pollVars, subPc, fetchCount, fetchFailed, hopFailed, hops,
                   retainedTimes, processedTimes, tickEvents, nonEmptyAtConnect>>

\* the Poller goroutine
PollerNext ==
    \/ Tick
    \/ \E outcome \in Outcomes, n \in BatchLengths : PollReturn(outcome, n)
    \/ \E m \in feed : PT_Next(m)
    \/ PT_LoopEnd
    \/ resolveUser(Poller)
    \/ PT_CallChannel
    \/ resolveChannelPath(Poller)
    \/ PT_Collect
    \/ PT_PubLock
    \/ \E p \in pending : PT_Range(p)
    \/ PT_PubUnlock
    \/ BC_Lock
    \/ BC_Send

\* the Poller alone, over every event of the upstream
InitPoller ==
    /\ InitCommon
    /\ upstream = ProgramGraph
    /\ feed = {m \in ActivityMessage : m.channelId \in {"c1", "c3"}}
    /\ \E S \in {{"c3"}, {"c1", "c3"}} : channelMap = BulkChannels(upstream, S)
    /\ userMap = BulkUsers({"u1"})
    /\ lastCheckTime = StartTime
    /\ newestInBatch = StartTime

SpecPoller == InitPoller /\ [][PollerNext]_vars

\* ---------------------------------------------------------- handleConnections

\* line 378: one handler per request to /ws; the connections are interchangeable and
\* are named in the order their requests arrive
NextToArrive(c) ==
    c = "ws1" \/ subPc["ws1"] # "start"

\* lines 379-383: the upgrade succeeds and the connection is open
Upgrade(c) ==
    /\ subPc[c] = "start"
    /\ NextToArrive(c)
    /\ conn' = [conn EXCEPT ![c] = "open"]
    /\ subPc' = [subPc EXCEPT ![c] = "add"]
    /\ UNCHANGED <<upVars, globalVars, taskVars, pollVars, inbox, fetchCount, fetchFailed,
                   hopFailed, hops, retainedTimes, processedTimes, tickEvents, tickSent>>

Connect(c) == Upgrade(c) /\ UNCHANGED nonEmptyAtConnect

\* the same step, with the history of the connections made while lastSpeakers had entries
ConnectNonEmpty(c) ==
    /\ Upgrade(c)
    /\ nonEmptyAtConnect' = IF DOMAIN lastSpeakers # {} THEN nonEmptyAtConnect \cup {c}
                            ELSE nonEmptyAtConnect

\* lines 380-383: the upgrade fails and the handler returns
UpgradeFails(c) ==
    /\ subPc[c] = "start"
    /\ NextToArrive(c)
    /\ subPc' = [subPc EXCEPT ![c] = "done"]
    /\ UNCHANGED <<upVars, globalVars, taskVars, pollVars, conn, inbox, histVars>>

\* lines 386-388: clientsMu.Lock(); clients[ws] = true; clientsMu.Unlock()
AddClient(c) ==
    /\ subPc[c] = "add"
    /\ clientsMu = None
    /\ clients' = clients \cup {c}
    /\ subPc' = [subPc EXCEPT ![c] = "snapshot"]
    /\ UNCHANGED <<upVars, channelMap, userMap, mapMutex, lastSpeakers, stateMutex, clientsMu,
                   lastCheckTime, crashed, taskVars, pollVars, conn, inbox, histVars>>

\* lines 390-395: under stateMutex.RLock() initMsg takes the map lastSpeakers itself
\* (a Go map is a reference: nothing is copied), then RUnlock
Snapshot(c) ==
    /\ subPc[c] = "snapshot"
    /\ CanRLock(stateMutex)
    /\ subPc' = [subPc EXCEPT ![c] = "init"]
    /\ UNCHANGED <<upVars, globalVars, taskVars, pollVars, conn, inbox, histVars>>

\* the Poller is writing lastSpeakers (line 189) or this connection (line 412)
RacesWithPoller(c) ==
    \/ pc[Poller] = "pub_range" /\ pending # {}
    \/ pc[Poller] = "bc_send" /\ c \in clients

\* line 396: ws.WriteJSON(initMsg) encodes lastSpeakers as it is now, no lock held;
\* the write's error is ignored
SendInit(c) ==
    /\ subPc[c] = "init"
    /\ inbox' = [inbox EXCEPT ![c] = IF WriteFails(c) THEN @
                                     ELSE Append(@, ExtensionInit(lastSpeakers))]
    /\ subPc' = [subPc EXCEPT ![c] = "read"]
    /\ UNCHANGED <<upVars, globalVars, taskVars, pollVars, conn, histVars>>

\* line 396 while the Poller writes the same map or the same connection: a data race,
\* which the Go runtime may end with a fatal error (concurrent map iteration and map
\* write) or gorilla with a panic (concurrent write to websocket connection)
SendInitCrash(c) ==
    /\ subPc[c] = "init"
    /\ RacesWithPoller(c)
    /\ crashed' = TRUE
    /\ pc' = [t \in Tasks |-> "exit"]
    /\ subPc' = [d \in Conns |-> "exit"]
    /\ UNCHANGED <<upVars, channelMap, userMap, mapMutex, lastSpeakers, stateMutex, clients,
                   clientsMu, lastCheckTime, userID, username, channelID, currentID, path,
                   fetched, pollVars, conn, inbox, histVars>>

\* a part of the map m
Restrict(m, S) == [p \in S |-> m[p]]

\* line 396 while the Poller is in its publish loop, writing lastSpeakers (line 189):
\* the same data race, not detected by the runtime; the encoder ranges over a map
\* that is being written and the INIT it sends misses entries
SendInitTorn(c) ==
    /\ subPc[c] = "init"
    /\ pc[Poller] = "pub_range" /\ pending # {}
    /\ ~WriteFails(c)
    /\ \E S \in SUBSET DOMAIN lastSpeakers :
           /\ S # DOMAIN lastSpeakers
           /\ inbox' = [inbox EXCEPT ![c] = Append(@, ExtensionInit(Restrict(lastSpeakers, S)))]
    /\ subPc' = [subPc EXCEPT ![c] = "read"]
    /\ UNCHANGED <<upVars, globalVars, taskVars, pollVars, conn, histVars>>

\* lines 398-405 and the deferred ws.Close(): ReadMessage fails, the handler deletes
\* the client and returns
ReadFails(c) ==
    /\ subPc[c] = "read"
    /\ conn[c] # "open"
    /\ clientsMu = None
    /\ clients' = clients \ {c}
    /\ conn' = [conn EXCEPT ![c] = "closed"]
    /\ subPc' = [subPc EXCEPT ![c] = "done"]
    /\ UNCHANGED <<upVars, channelMap, userMap, mapMutex, lastSpeakers, stateMutex, clientsMu,
                   lastCheckTime, crashed, taskVars, pollVars, inbox, histVars>>

\* the subscriber goes away: the connection is broken until the server notices
PeerCloses(c) ==
    /\ conn[c] = "open"
    /\ ~crashed
    /\ conn' = [conn EXCEPT ![c] = "broken"]
    /\ UNCHANGED <<upVars, globalVars, taskVars, pollVars, subPc, inbox, histVars>>

handleConnections(c) ==
    \/ Connect(c) \/ UpgradeFails(c) \/ AddClient(c) \/ Snapshot(c) \/ SendInit(c)
    \/ SendInitCrash(c) \/ SendInitTorn(c) \/ ReadFails(c)

\* ------------------------------------------------------------- the program

\* main: the bulk load is done, the Poller and the HTTP server run
Init ==
    /\ InitCommon
    /\ upstream = ProgramGraph
    /\ feed = {[userId |-> "u1", channelId |-> "c3", createdAt |-> 1],
               [userId |-> "u2", channelId |-> "c1", createdAt |-> MaxTime]}
    /\ channelMap = BulkChannels(upstream, {"c2", "c3"})
    /\ userMap = BulkUsers({"u1"})
    /\ lastCheckTime = StartTime
    /\ newestInBatch = StartTime

Next ==
    \/ PollerNext
    \/ \E c \in Conns : handleConnections(c)
    \/ \E c \in Conns : PeerCloses(c)

Spec == Init /\ [][Next]_vars

\* the connections of the runs checked for progress: a handler holds clientsMu or
\* stateMutex within one step only, so that handlers do not block one another
LockConns == {"ws1"}

\* the Poller and the handlers of these connections
NextLocks ==
    \/ PollerNext
    \/ \E c \in LockConns : handleConnections(c)
    \/ \E c \in LockConns : PeerCloses(c)

\* where the Poller waits for the ticker or for an answer of the upstream
EnvWaits == {"idle", "poll", "ru_fetch", "rc_fetch"}

\* a step of the Poller that waits for nothing outside the program
PollerRuns == pc[Poller] \notin EnvWaits /\ PollerNext

\* where every goroutine is; each of the steps below changes it
position == <<pc, i, subPc>>

\* the Go scheduler runs a goroutine that can run, and a goroutine blocked in
\* Lock()/RLock() gets the mutex once it is released (sync.Mutex hands the lock to a
\* starving waiter; a waiting writer of a sync.RWMutex blocks new readers); the
\* ticker, the upstream and the subscribers are under no obligation
Fairness ==
    /\ WF_position(PollerRuns)
    /\ \A c \in LockConns : /\ SF_position(AddClient(c))
                            /\ SF_position(Snapshot(c))
                            /\ SF_position(ReadFails(c))

\* the program under the scheduling of the Go runtime
SpecFair == Init /\ [][NextLocks]_vars /\ Fairness

\* the Poller of the program alone: no two events of its feed share a createdAt, so
\* an instant in retainedTimes or processedTimes names one event of the upstream
SpecTicks == Init /\ [][PollerNext]_vars

\* the program, with the history nonEmptyAtConnect kept
handleConnectionsLogged(c) ==
    \/ ConnectNonEmpty(c) \/ UpgradeFails(c) \/ AddClient(c) \/ Snapshot(c) \/ SendInit(c)
    \/ SendInitCrash(c) \/ SendInitTorn(c) \/ ReadFails(c)

NextConnects ==
    \/ PollerNext
    \/ \E c \in Conns : handleConnectionsLogged(c)
    \/ \E c \in Conns : PeerCloses(c)

SpecConnects == Init /\ [][NextConnects]_vars

\* resolveUser under concurrent callers
InitUsers ==
    /\ InitCommon
    /\ upstream = ProgramGraph
    /\ feed = {}
    /\ channelMap = BulkChannels(upstream, ChannelIds)
    /\ \E S \in SUBSET UserIds : userMap = BulkUsers(S)
    /\ lastCheckTime = StartTime
    /\ newestInBatch = StartTime

NextUsers ==
    \/ \E t \in Resolvers, id \in UserIds : CallResolveUser(t, id)
    \/ \E t \in Resolvers : resolveUser(t)
    \/ \E t \in Resolvers : Return(t)

SpecUsers == InitUsers /\ [][NextUsers]_vars

\* resolveChannelPath over every channel relation and every bulk-loaded part of it
PathCallers == {"r1"}

InitChannels ==
    /\ InitCommon
    /\ upstream \in AllGraphs
    /\ feed = {}
    /\ \E S \in SUBSET ChannelIds : channelMap = BulkChannels(upstream, S)
    /\ userMap = BulkUsers(UserIds)
    /\ lastCheckTime = StartTime
    /\ newestInBatch = StartTime

NextChannels ==
    \/ \E t \in PathCallers, id \in ChannelIds : CallResolveChannelPath(t, id)
    \/ \E t \in PathCallers : resolveChannelPath(t)
    \/ \E t \in PathCallers : Return(t)

SpecChannels == InitChannels /\ [][NextChannels]_vars

\* the upstream behind fetchSingleChannel: channel c is moved under the parent p
MoveChannel(c, p) ==
    /\ upstream[c] # p
    /\ upstream' = [upstream EXCEPT ![c] = p]
    /\ UNCHANGED <<feed, globalVars, taskVars, pollVars, subVars, histVars>>

\* resolveChannelPath under concurrent callers, while the upstream moves channel A
InitChannelRace ==
    /\ InitCommon
    /\ upstream = ProgramGraph
    /\ feed = {}
    /\ channelMap = BulkChannels(upstream, {"c2", "c3"})
    /\ userMap = BulkUsers(UserIds)
    /\ lastCheckTime = StartTime
    /\ newestInBatch = StartTime

NextChannelRace ==
    \/ \E t \in Resolvers, id \in {"c1", "c3"} : CallResolveChannelPath(t, id)
    \/ \E t \in Resolvers : resolveChannelPath(t)
    \/ \E t \in Resolvers : Return(t)
    \/ \E p \in {"c2", "c3", RootID} : MoveChannel("c1", p)

SpecChannelRace == InitChannelRace /\ [][NextChannelRace]_vars

\* ------------------------------------------- the event-driven variant (lines 418-668)

\* the events the bot delivers
MessageCreated == [userId : UserIds, channelId : ChannelIds]

\* line 605: userMap[userID], the empty string for an absent key
CachedUser(um, id) == IF id \in DOMAIN um THEN um[id] ELSE ""

\* line 500: the bot calls the handler of task t with the event m
OnMessageCreated(t, m) ==
    /\ pc[t] = "idle"
    /\ userID' = [userID EXCEPT ![t] = m.userId]
    /\ channelID' = [channelID EXCEPT ![t] = m.channelId]
    /\ pc' = [pc EXCEPT ![t] = "ev_user"]
    /\ UNCHANGED <<upVars, globalVars, username, currentID, path, fetched, pollVars, subVars,
                   histVars>>

\* lines 502-506 and 602-606: resolveUser reads the cache under RLock; an unknown
\* user ends the handler
EV_ResolveUser(t) ==
    /\ pc[t] = "ev_user"
    /\ CanRLock(mapMutex)
    /\ username' = [username EXCEPT ![t] = CachedUser(userMap, userID[t])]
    /\ pc' = [pc EXCEPT ![t] = IF CachedUser(userMap, userID[t]) = "" THEN "done"
                               ELSE "ev_path"]
    /\ UNCHANGED <<upVars, globalVars, userID, channelID, currentID, path, fetched, pollVars,
                   subVars, histVars>>

\* lines 508-511 and 608-627: resolveChannelPath walks the cache under RLock; an
\* unknown channel ends the handler
EV_ResolvePath(t) ==
    /\ pc[t] = "ev_path"
    /\ CanRLock(mapMutex)
    /\ path' = [path EXCEPT ![t] = resolveChannelPathCached(channelMap, channelID[t])]
    /\ pc' = [pc EXCEPT ![t] = IF resolveChannelPathCached(channelMap, channelID[t]) = ""
                               THEN "done" ELSE "ev_store"]
    /\ UNCHANGED <<upVars, globalVars, userID, username, channelID, currentID, fetched,
                   pollVars, subVars, histVars>>

\* lines 514-516: stateMutex.Lock(); lastSpeakers[path] = username; stateMutex.Unlock()
EV_Store(t) ==
    /\ pc[t] = "ev_store"
    /\ CanLock(stateMutex)
    /\ lastSpeakers' = Put(lastSpeakers, path[t], username[t])
    /\ pc' = [pc EXCEPT ![t] = "ev_bcast"]
    /\ UNCHANGED <<upVars, channelMap, userMap, mapMutex, stateMutex, clients, clientsMu,
                   lastCheckTime, crashed, userID, username, channelID, currentID, path,
                   fetched, pollVars, subVars, histVars>>

\* lines 521-525 and 659-668: broadcastToClients under clientsMu writes the UPDATE to
\* every client and deletes the ones whose write fails; tickSent is the log of the
\* broadcasts
EV_Broadcast(t) ==
    /\ pc[t] = "ev_bcast"
    /\ clientsMu = None
    /\ inbox' = [c \in Conns |-> IF c \in clients /\ ~WriteFails(c)
                                 THEN Append(inbox[c], ExtensionUpdate(path[t], username[t]))
                                 ELSE inbox[c]]
    /\ conn' = [c \in Conns |-> IF c \in clients /\ WriteFails(c) THEN "closed" ELSE conn[c]]
    /\ clients' = Survivors(clients)
    /\ tickSent' = Append(tickSent, ExtensionUpdate(path[t], username[t]))
    /\ pc' = [pc EXCEPT ![t] = "done"]
    /\ UNCHANGED <<upVars, channelMap, userMap, mapMutex, lastSpeakers, stateMutex, clientsMu,
                   lastCheckTime, crashed, userID, username, channelID, currentID, path,
                   fetched, pollVars, subPc, fetchCount, fetchFailed, hopFailed, hops,
                   retainedTimes, processedTimes, tickEvents, nonEmptyAtConnect>>

\* the handler of one event
EventHandler(t) ==
    \/ \E m \in MessageCreated : OnMessageCreated(t, m)
    \/ EV_ResolveUser(t)
    \/ EV_ResolvePath(t)
    \/ EV_Store(t)
    \/ EV_Broadcast(t)

\* lines 629-657: handleConnections, as in the polling variant
EventSubscriber(c) ==
    \/ Connect(c) \/ AddClient(c) \/ Snapshot(c) \/ SendInit(c) \/ ReadFails(c)
    \/ PeerCloses(c)

\* lines 470-497: the bulk load has filled the caches; there is no fetch afterwards
InitEvents ==
    /\ InitCommon
    /\ upstream = ProgramGraph
    /\ feed = {}
    /\ channelMap = BulkChannels(upstream, {"c2", "c3"})
    /\ \E S \in {{"u1"}, UserIds} : userMap = BulkUsers(S)
    /\ lastCheckTime = StartTime
    /\ newestInBatch = StartTime

\* two events handled concurrently, and one subscriber
NextEvents ==
    \/ \E t \in Resolvers : EventHandler(t)
    \/ EventSubscriber("ws1")

SpecEvents == InitEvents /\ [][NextEvents]_vars

\* ================================================================== claims

\* the Poller is between two ticks
PollerIdle == pc[Poller] = "idle"

\* the last tick ran processTimeline to its end
TickDone == PollerIdle /\ pollResult = "ok"

\* C1, as stated: learn-once. Under concurrent first-miss callers no id is fetched
\* more than once, and every caller returns the cached value.
C1_LearnOnce ==
    /\ \A id \in UserIds : fetchCount[id] <= 1
    /\ \A t \in Resolvers : pc[t] = "ru_done" =>
           CacheHit(userMap, userID[t]) /\ username[t] = userMap[userID[t]]

\* C1, amended: every caller that misses issues its own fetch (at most one per caller),
\* but a cache entry, once written, never changes (first writer wins) and every
\* caller returns the cached value.
C1_FirstWriterWins ==
    [][ /\ \A id \in DOMAIN userMap : id \in DOMAIN userMap' /\ userMap'[id] = userMap[id]
        /\ \A id \in UserIds : fetchCount'[id] <= Cardinality(Resolvers)
        /\ \A t \in Resolvers : pc'[t] = "ru_done" =>
               CacheHit(userMap', userID'[t]) /\ username'[t] = userMap'[userID'[t]] ]_vars

\* two callers missed on the same id, both fetched with different results, both returned
C1_Witness ==
    \E id \in UserIds :
        /\ fetchCount[id] = 2
        /\ \A t \in Resolvers : pc[t] = "ru_done" /\ userID[t] = id /\ fetched[t] # <<>>
        /\ fetched["r1"] # fetched["r2"]

\* C3: the Watermark never decreases, whatever the ticks bring.
C3_WatermarkMonotone == [][lastCheckTime' >= lastCheckTime]_vars

\* a later tick's batch held nothing newer than an already advanced watermark
C3_Witness ==
    /\ pc[Poller] = "loop" /\ i < 0
    /\ ticks > 1
    /\ lastCheckTime > StartTime
    /\ newestInBatch = lastCheckTime

\* C4, as stated: between ticks the Watermark is the greatest createdAt among the
\* events resolved and published.
C4_MaxOfPublished ==
    PollerIdle /\ processedTimes # {} => lastCheckTime = Max(processedTimes)

\* C4, amended: between ticks the Watermark is the greatest of its startup value and
\* the createdAt of every event that passed the watermark filter, dropped ones included.
C4_MaxOfRetained ==
    PollerIdle => lastCheckTime = Max({StartTime} \cup retainedTimes)

\* an event dropped for resolution failure set the Watermark
C4_Witness ==
    /\ PollerIdle
    /\ lastCheckTime = MaxTime
    /\ MaxTime \notin processedTimes
    /\ processedTimes # {}

\* the events of the last tick that were retained and resolved to path p
EventsFor(p) == {e \in tickEvents : e.channelPath = p}

\* the paths the retained, resolved events of the last tick resolved to
TickPaths == {e.channelPath : e \in tickEvents}

\* username is what the last tick published for p: in lastSpeakers and in every UPDATE for p
PublishedFor(p, name) ==
    /\ p \in DOMAIN lastSpeakers /\ lastSpeakers[p] = name
    /\ \E k \in 1 .. Len(tickSent) : tickSent[k].channelPath = p
    /\ \A k \in 1 .. Len(tickSent) : tickSent[k].channelPath = p => tickSent[k].username = name

\* C5, as stated: for a path with two or more retained events in a tick, what is
\* published is the change of an event with the greatest createdAt, in whatever order
\* the batch lists them.
C5_LatestWins ==
    TickDone =>
        \A p \in TickPaths : Cardinality(EventsFor(p)) >= 2 =>
            \E e \in EventsFor(p) :
                /\ e.createdAt = Max({f.createdAt : f \in EventsFor(p)})
                /\ PublishedFor(p, e.username)

\* the events of p stand newest-first in the batch
NewestFirst(p) ==
    \A e, f \in EventsFor(p) : e.idx < f.idx => e.createdAt >= f.createdAt

\* C5, amended: what is published for such a path is the change of its retained event
\* nearest the front of the batch (the one processed last); that is an event with the
\* greatest createdAt whenever the batch lists the events of the path newest-first.
C5_FrontWins ==
    TickDone =>
        \A p \in TickPaths : Cardinality(EventsFor(p)) >= 2 =>
            \E e \in EventsFor(p) :
                /\ \A f \in EventsFor(p) : e.idx <= f.idx
                /\ PublishedFor(p, e.username)
                /\ NewestFirst(p) => e.createdAt = Max({f.createdAt : f \in EventsFor(p)})

\* two events of different users and instants on one path, newest first, were processed
C5_Witness ==
    /\ TickDone
    /\ \E p \in TickPaths : \E e, f \in EventsFor(p) :
           /\ e.idx < f.idx /\ e.createdAt > f.createdAt /\ e.username # f.username
           /\ PublishedFor(p, e.username)

\* C6: a successful tick broadcasts one UPDATE per distinct path of its retained,
\* resolved events, and lastSpeakers then holds the username of that UPDATE; alice at 1
\* and bob at 2 on /channels/general give one UPDATE (bob), bob stored, watermark 2.
C6_OneUpdatePerPath ==
    TickDone =>
        /\ Len(tickSent) = Cardinality(TickPaths)
        /\ {tickSent[k].channelPath : k \in 1 .. Len(tickSent)} = TickPaths
        /\ \A k \in 1 .. Len(tickSent) :
               /\ tickSent[k].type = "UPDATE"
               /\ tickSent[k].channelPath \in DOMAIN lastSpeakers
               /\ lastSpeakers[tickSent[k].channelPath] = tickSent[k].username
        /\ ( /\ tickEvents = {[idx |-> 1, createdAt |-> 1, channelPath |-> "/channels/general",
                               username |-> "alice"],
                              [idx |-> 0, createdAt |-> 2, channelPath |-> "/channels/general",
                               username |-> "bob"]}
             /\ retainedTimes = {1, 2}
             => /\ tickSent = <<ExtensionUpdate("/channels/general", "bob")>>
                /\ lastSpeakers["/channels/general"] = "bob"
                /\ lastCheckTime = 2 )

\* the tick of alice at 1 and bob at 2 on /channels/general has run
C6_Witness ==
    /\ TickDone
    /\ tickEvents = {[idx |-> 1, createdAt |-> 1, channelPath |-> "/channels/general",
                      username |-> "alice"],
                     [idx |-> 0, createdAt |-> 2, channelPath |-> "/channels/general",
                      username |-> "bob"]}
    /\ retainedTimes = {1, 2}
    /\ Len(tickSent) = 1

\* C7: an id whose fetch failed is registered as "webhook", every later resolveUser
\* of it returns "webhook", and it is never fetched again.
C7_FallbackCached ==
    \A id \in fetchFailed :
        /\ fetchCount[id] = 1
        /\ \/ pc[Poller] \in {"ru_lock", "ru_store"} /\ userID[Poller] = id
           \/ CacheHit(userMap, id) /\ userMap[id] = "webhook"
        /\ pc[Poller] = "ru_done" /\ userID[Poller] = id => username[Poller] = "webhook"

\* a later tick resolved, from the cache, an id whose fetch had failed
C7_Witness ==
    /\ ticks > 1
    /\ pc[Poller] = "ru_done"
    /\ userID[Poller] \in fetchFailed
    /\ fetched[Poller] = <<>>
    /\ username[Poller] = "webhook"

\* C8: a failed poll (transport error, non-200, decode error) changes nothing: the
\* watermark, both caches, lastSpeakers and the clients are as before, and nothing is sent.
C8_FailedTickSkipped ==
    [][ pc[Poller] = "poll" /\ pollResult' \in {"transport", "status", "decode"} =>
            /\ pc'[Poller] = "idle"
            /\ UNCHANGED <<lastCheckTime, userMap, channelMap, lastSpeakers, clients,
                           inbox, tickSent>> ]_vars

\* a poll failed at decoding while there was state and a subscriber to disturb
C8_Witness ==
    /\ PollerIdle
    /\ pollResult = "decode"
    /\ DOMAIN lastSpeakers # {}
    /\ clients # {}

\* the ids from c up to the root, or <<>> when the root is not reached in n hops
RECURSIVE Chain(_, _, _)
Chain(g, c, n) ==
    IF n = 0 THEN <<>>
    ELSE IF g[c] \notin ChannelIds THEN <<c>>
    ELSE IF Chain(g, g[c], n - 1) = <<>> THEN <<>>
    ELSE <<c>> \o Chain(g, g[c], n - 1)

\* "/channels" and then the names of a chain, root first
RECURSIVE PathOfChain(_)
PathOfChain(ch) ==
    IF ch = <<>> THEN "/channels"
    ELSE PathOfChain(Tail(ch)) \o "/" \o UpstreamChannelName(Head(ch))

\* c's chain reaches the root
Acyclic(g, c) == Chain(g, c, Cardinality(ChannelIds)) # <<>>

\* the path of channel c in relation g, for a chain that reaches the root
ExpectedPath(g, c) == PathOfChain(Chain(g, c, Cardinality(ChannelIds)))

\* the complete paths of the relation g
CompletePaths(g) == {ExpectedPath(g, c) : c \in {d \in ChannelIds : Acyclic(g, d)}}

\* C9: a chain with an unresolvable hop resolves to "" and its event is dropped:
\* nothing is collected, stored or broadcast for it, and no partial path ever is.
C9_UnresolvedDropped ==
    [][ /\ pc'[Poller] = "rc_done" /\ hopFailed'[Poller] => path'[Poller] = ""
        /\ pc[Poller] = "rc_done" /\ hopFailed[Poller] =>
               UNCHANGED <<updates, lastSpeakers, tickSent, tickEvents>>
        /\ DOMAIN updates' \cup DOMAIN lastSpeakers'
               \cup {tickSent'[k].channelPath : k \in 1 .. Len(tickSent')}
               \subseteq CompletePaths(upstream) ]_vars

\* the second hop of a chain failed after the first had put its name on the path
C9_Witness ==
    /\ pc[Poller] = "rc_done"
    /\ hopFailed[Poller]
    /\ hops[Poller] = 2
    /\ path[Poller] = ""
    /\ channelID[Poller] \in DOMAIN channelMap

\* C10: an acyclic chain resolves to "/channels/" and the names from root to leaf, in
\* both variants; A under B under the root is /channels/B/A.
C10_PathRootToLeaf ==
    /\ \A t \in PathCallers : pc[t] = "rc_done" /\ ~hopFailed[t] =>
           /\ Acyclic(upstream, channelID[t])
           /\ path[t] = ExpectedPath(upstream, channelID[t])
           /\ upstream["c1"] = "c2" /\ upstream["c2"] = RootID /\ channelID[t] = "c1"
                  => path[t] = "/channels/B/A"
    /\ \A c \in ChannelIds :
           /\ Acyclic(upstream, c)
           /\ \A k \in 1 .. Len(Chain(upstream, c, Cardinality(ChannelIds))) :
                  Chain(upstream, c, Cardinality(ChannelIds))[k] \in DOMAIN channelMap
           => resolveChannelPathCached(channelMap, c) = ExpectedPath(upstream, c)

\* a chain of three, learned hop by hop, has been resolved
C10_Witness ==
    \E t \in PathCallers :
        /\ pc[t] = "rc_done" /\ ~hopFailed[t]
        /\ hops[t] = 3
        /\ path[t] = "/channels/general/B/A"

\* C2, as stated: a subscriber that connects while lastSpeakers is non-empty receives
\* exactly one INIT, and that INIT is the first message it receives.
C2_InitFirst ==
    \A c \in nonEmptyAtConnect :
        /\ inbox[c] # <<>> => inbox[c][1].type = "INIT"
        /\ Cardinality({k \in 1 .. Len(inbox[c]) : inbox[c][k].type = "INIT"}) <= 1
        /\ subPc[c] = "read" /\ conn[c] = "open" =>
               Cardinality({k \in 1 .. Len(inbox[c]) : inbox[c][k].type = "INIT"}) = 1

\* the view a subscriber builds from what it received: the state of its INIT, then
\* every UPDATE in the order received
RECURSIVE ApplyAll(_, _)
ApplyAll(view, box) ==
    IF box = <<>> THEN view
    ELSE ApplyAll(IF Head(box).type = "UPDATE"
                  THEN Put(view, Head(box).channelPath, Head(box).username)
                  ELSE view,
                  Tail(box))

InitOf(box) == box[CHOOSE k \in 1 .. Len(box) : box[k].type = "INIT"].state

View(box) == ApplyAll(InitOf(box), box)

\* the subscriber has connected, got its INIT, and is still connected and registered
Subscribed(c) == subPc[c] = "read" /\ conn[c] = "open" /\ c \in clients

\* C11, as stated: whenever the Poller is idle, the view of every subscriber that
\* stays connected equals lastSpeakers, at whatever point of a publish batch it connected.
C11_ViewEqualsStore ==
    \A c \in Conns : PollerIdle /\ Subscribed(c) => View(inbox[c]) = lastSpeakers

\* a task holds one of the three locks
HoldsLock(t) ==
    \/ mapMutex.w = t \/ t \in mapMutex.r
    \/ stateMutex.w = t \/ t \in stateMutex.r
    \/ clientsMu = t

\* the task's remote fetch is in flight: the timeline, fetchSingleUser, fetchSingleChannel
Fetching(t) == pc[t] \in {"poll", "ru_fetch", "rc_fetch"}

\* C12: a task whose remote fetch is in flight holds none of mapMutex, stateMutex and
\* clientsMu, so the fetch blocks no cache read: mapMutex can be read-locked unless
\* some other task is writing the cache.
C12_NoLockDuringFetch ==
    \A t \in Tasks : Fetching(t) =>
        /\ ~HoldsLock(t)
        /\ CanRLock(mapMutex) \/ \E u \in Tasks \ {t} : mapMutex.w = u

\* the Poller has done each of the three fetches, the last while a subscriber was served
C12_Witness ==
    /\ pc[Poller] = "rc_fetch"
    /\ fetchCount["u2"] = 1
    /\ ticks = MaxTicks
    /\ clients # {}
    /\ mapMutex = Unlocked

\* C13: a broadcast removes from clients exactly the subscribers whose send failed and
\* delivers the message to every other registered subscriber.
C13_FailedSendRemovesOnlyThat ==
    [][ pc[Poller] = "bc_send" /\ pc'[Poller] = "pub_range" =>
            /\ clients' = {c \in clients : conn[c] = "open"}
            /\ \A c \in Conns :
                   inbox'[c] = IF c \in clients /\ conn[c] = "open"
                               THEN Append(inbox[c], updates[cur]) ELSE inbox[c] ]_vars

\* the first broadcast met one broken and one live subscriber: the broken one is out
\* of clients and got nothing, the live one got the UPDATE
C13_Witness ==
    /\ pc[Poller] = "pub_range"
    /\ Len(tickSent) = 1 /\ ticks = 1
    /\ subPc["ws1"] = "read" /\ conn["ws1"] = "closed" /\ "ws1" \notin clients
    /\ inbox["ws1"] = <<ExtensionInit(EmptyMap)>>
    /\ "ws2" \in clients /\ conn["ws2"] = "open"
    /\ inbox["ws2"] = <<ExtensionInit(EmptyMap), tickSent[1]>>

\* C14, as stated: a lookup whose parent chain runs into a cycle terminates and returns
\* unresolved.  A walk over n channels that ends has ended once it has made n hops (one
\* more hop would visit some channel a second time), and what it returns is "".
C14_CycleUnresolved ==
    \A t \in PathCallers :
        channelID[t] \in ChannelIds /\ ~Acyclic(upstream, channelID[t]) =>
            /\ pc[t] = "rc_done" => path[t] = ""
            /\ pc[t] = "rc_rlock" => hops[t] < Cardinality(ChannelIds)

\* C15, as stated: an entry of the channel cache, once there, never changes: a caller
\* whose fetch ends after another caller has registered the id keeps the existing entry.
C15_ChannelEntryImmutable ==
    [][ \A id \in DOMAIN channelMap :
            id \in DOMAIN channelMap' /\ channelMap'[id] = channelMap[id] ]_vars

\* the step reads the next event of the batch (line 158)
ReadsEvent == pc[Poller] = "loop" /\ i >= 0 /\ <<pc[Poller], i>> # <<pc'[Poller], i'>>

\* the Poller has just discarded the event msg at the filter of line 161
Discarded == pc[Poller] = "loop" /\ msg # NoMessage /\ ~After(msg.createdAt, lastCheckTime)

\* C16, as stated: no event of a successful tick's batch is missed: one that the
\* filter discards has been processed (retained and resolved) before.
C16_NoEventMissed ==
    [][ ReadsEvent /\ pc'[Poller] = "loop" => msg'.createdAt \in retainedTimes ]_vars

\* C16, amended: an event of the batch strictly after the Watermark as it stands in
\* that tick is processed in that tick (resolved, then collected for publication or
\* dropped for resolution failure only); an event at or before the Watermark is
\* discarded and changes nothing, whether or not it was ever processed.
C16_NewEventsProcessed ==
    [][ /\ ReadsEvent =>
               IF After(msg'.createdAt, lastCheckTime)
               THEN /\ pc'[Poller] = "ru_rlock" /\ userID'[Poller] = msg'.userId
                    /\ msg'.createdAt \in retainedTimes'
               ELSE /\ pc'[Poller] = "loop" /\ i' = i - 1
                    /\ UNCHANGED <<retainedTimes, processedTimes, newestInBatch, updates,
                                   lastSpeakers, lastCheckTime, tickSent>>
        /\ pc[Poller] = "rc_done" /\ pc'[Poller] = "loop" =>
               \/ path[Poller] = "" \/ username[Poller] = ""
               \/ /\ msg.createdAt \in processedTimes'
                  /\ path[Poller] \in DOMAIN updates'
                  /\ updates'[path[Poller]].username = username[Poller] ]_vars

\* a later tick discarded an event that no tick had ever retained
C16_Witness ==
    /\ Discarded
    /\ ticks > 1
    /\ msg.createdAt > StartTime
    /\ msg.createdAt \notin retainedTimes

\* the instants retained in earlier ticks (those of this tick are after the Watermark)
EarlierRetained == {t \in retainedTimes : ~After(t, lastCheckTime)}

\* C17: no event is processed twice across ticks: between ticks every event retained
\* so far is at or before the Watermark, an event retained in an earlier tick is never
\* retained again, and one published in an earlier tick is never collected again.
C17_NoEventTwice ==
    [][ /\ PollerIdle' => \A t \in retainedTimes' : ~After(t, lastCheckTime')
        /\ ReadsEvent /\ pc'[Poller] = "ru_rlock" => msg'.createdAt \notin EarlierRetained
        /\ pc[Poller] = "rc_done" /\ updates' # updates =>
               msg.createdAt \notin (processedTimes \cap EarlierRetained) ]_vars

\* a later tick brought again an event published in an earlier tick, and discarded it
C17_Witness ==
    /\ Discarded
    /\ ticks > 1
    /\ msg.createdAt \in processedTimes
    /\ DOMAIN lastSpeakers # {}

\* the instants of the events dropped for resolution failure in earlier ticks
DroppedEarlier == EarlierRetained \ processedTimes

\* C18: an event dropped for resolution failure does not block its tick and is lost for
\* good: what the tick collected from its other events is published, the Watermark is
\* at or after the dropped event once the tick is over, and no later tick publishes it.
C18_DroppedIsLost ==
    [][ /\ TickDone' =>
               \A e \in tickEvents' :
                   /\ e.channelPath \in DOMAIN lastSpeakers'
                   /\ \E k \in 1 .. Len(tickSent') : tickSent'[k].channelPath = e.channelPath
        /\ PollerIdle' =>
               \A t \in retainedTimes' \ processedTimes' : lastCheckTime' >= t
        /\ \A t \in DroppedEarlier : t \notin processedTimes' ]_vars

\* tick 1 dropped the event at MaxTime and published another one; a later tick brought
\* the dropped event again, while the upstream would resolve its channel, and discarded it
C18_Witness ==
    /\ Discarded
    /\ ticks > 1
    /\ msg.createdAt = MaxTime
    /\ MaxTime \in DroppedEarlier
    /\ lastCheckTime = MaxTime
    /\ processedTimes # {}
    /\ msg.channelId \notin DOMAIN channelMap

\* the handlers of the event-driven variant have all returned
HandlersDone == \A t \in Resolvers : pc[t] = "done"

\* the last UPDATE broadcast for the path p
LastUpdate(p) ==
    tickSent[Max({k \in 1 .. Len(tickSent) : tickSent[k].channelPath = p})]

\* C19: in the event-driven variant, once the concurrent handlers have returned, the
\* username of the last UPDATE broadcast for a path is the username stored in
\* lastSpeakers for that path.
C19_BroadcastMatchesStore ==
    HandlersDone =>
        \A p \in DOMAIN lastSpeakers : LastUpdate(p).username = lastSpeakers[p]

\* the task t is blocked in, or about to call, Lock() or RLock()
WaitsForLock(t) == pc[t] \in {"ru_rlock", "ru_lock", "rc_rlock", "rc_lock", "pub_lock", "bc_lock"}

\* the handler of connection c is about to take clientsMu (lines 386, 400) or
\* stateMutex (line 390)
SubWaitsForLock(c) ==
    \/ subPc[c] \in {"add", "snapshot"}
    \/ subPc[c] = "read" /\ conn[c] # "open"

Held(mu) == mu.w # None \/ mu.r # {}

\* C20: the locks are nested only as stateMutex then clientsMu (whoever holds clientsMu
\* across a step took stateMutex before it and takes no lock until it releases it;
\* mapMutex is never held together with another lock), and every task waiting for a
\* lock eventually acquires it (or the process has ended).
C20_NoDeadlock ==
    /\ [](clientsMu # None => stateMutex.w = clientsMu)
    /\ [](Held(mapMutex) => ~Held(stateMutex) /\ clientsMu = None)
    /\ \A t \in Tasks : WaitsForLock(t) ~> ~WaitsForLock(t)
    /\ \A c \in LockConns : SubWaitsForLock(c) ~> ~SubWaitsForLock(c)

\* the Poller holds stateMutex and clientsMu in its broadcast to a registered client
\* whose handler waits for stateMutex
C20_Witness ==
    /\ pc[Poller] = "bc_send"
    /\ stateMutex.w = Poller /\ clientsMu = Poller
    /\ "ws1" \in clients
    /\ subPc["ws1"] = "snapshot"
    /\ ~CanRLock(stateMutex)

====
